---------------------------- MODULE Spec2Model ----------------------------
(***************************************************************************)
(* A model of the aiswarm command line tool (src/aiswarm_cli/main.py):     *)
(* the init, task, complete and status commands, the project directory     *)
(* they read and write (.aiswarm/config.json, .worktrees/<name>/...) and   *)
(* the git repository they drive through subprocess calls.                 *)
(*                                                                         *)
(* Text is modelled as a sequence of one-character strings, so that        *)
(* get_sanitized_branch_name and the handling of the configured branch are *)
(* computed character by character as the code computes them.              *)
(***************************************************************************)
EXTENDS Naturals, Sequences, FiniteSets, TLC

VARIABLES
    configDir,    \* whether the directory .aiswarm exists
    configFile,   \* .aiswarm/config.json: absent, malformed, or a JSON object
    baseDir,      \* whether the directory .worktrees exists
    worktrees,    \* the entries of .worktrees: name -> [context, index]
    branches,     \* the branch names of the repository
    head,         \* the branch checked out in the outer repository
    unmerged,     \* task branches holding a commit HEAD does not contain
    merges,       \* the merge commits made: <<branch, target>>
    gitInstalled, \* whether the git binary is on the PATH
    frame         \* per terminal: the running invocation's position and locals

vars == <<configDir, configFile, baseDir, worktrees, branches, head, unmerged,
          merges, gitInstalled, frame>>

-----------------------------------------------------------------------------
(* Text helpers *)

LowerCase == <<"a","b","c","d","e","f","g","h","i","j","k","l","m",
               "n","o","p","q","r","s","t","u","v","w","x","y","z">>
UpperCase == <<"A","B","C","D","E","F","G","H","I","J","K","L","M",
               "N","O","P","Q","R","S","T","U","V","W","X","Y","Z">>
Digits == {"0","1","2","3","4","5","6","7","8","9"}
Whitespace == {" ", "\t", "\n", "\r"}

Range(s) == {s[i] : i \in DOMAIN s}

IsUpper(c) == c \in Range(UpperCase)

\* str.lower() on one character
LowerChar(c) ==
    IF IsUpper(c)
    THEN LowerCase[CHOOSE i \in DOMAIN UpperCase : UpperCase[i] = c]
    ELSE c

Lower(s) == [i \in DOMAIN s |-> LowerChar(s[i])]

RECURSIVE Filter(_, _)
\* the characters of s that are in keep, in order
Filter(s, keep) ==
    IF s = <<>> THEN <<>>
    ELSE (IF Head(s) \in keep THEN <<Head(s)>> ELSE <<>>) \o Filter(Tail(s), keep)

\* the pattern [^\w ]: the underscore is kept
StripSpecialWord(s) ==
    Filter(s, Range(LowerCase) \cup Range(UpperCase) \cup Digits \cup {" ", "_"})

\* re.sub(r'[^a-zA-Z0-9 ]', '', prompt)
StripSpecial(s) ==
    Filter(s, Range(LowerCase) \cup Range(UpperCase) \cup Digits \cup {" "})

RECURSIVE CollapseWhitespace(_)
\* re.sub(r'\s+', '-', sanitized): each maximal run of whitespace becomes one hyphen
CollapseWhitespace(s) ==
    IF s = <<>> THEN <<>>
    ELSE IF Head(s) \in Whitespace
         THEN IF Tail(s) # <<>> /\ Head(Tail(s)) \in Whitespace
              THEN CollapseWhitespace(Tail(s))
              ELSE <<"-">> \o CollapseWhitespace(Tail(s))
         ELSE <<Head(s)>> \o CollapseWhitespace(Tail(s))

MaxBranchLen == 50

\* sanitized[:50]
Truncate(s) == IF Len(s) <= MaxBranchLen THEN s ELSE SubSeq(s, 1, MaxBranchLen)

get_sanitized_branch_name(prompt) ==
    Truncate(CollapseWhitespace(Lower(StripSpecial(prompt))))


\* str.strip(): leading and trailing whitespace removed
RECURSIVE LStrip(_)
LStrip(s) == IF s # <<>> /\ Head(s) \in Whitespace THEN LStrip(Tail(s)) ELSE s

RECURSIVE RStrip(_)
RStrip(s) ==
    IF s # <<>> /\ s[Len(s)] \in Whitespace THEN RStrip(SubSeq(s, 1, Len(s) - 1)) ELSE s

Strip(s) == RStrip(LStrip(s))

\* str.replace('"', '')
RemoveQuotes(s) == Filter(s, Range(s) \ {"\""})

RECURSIVE Basename(_)
\* os.path.basename: what follows the last separator
Basename(path) ==
    IF \E i \in DOMAIN path : path[i] = "/"
    THEN Basename(Tail(path))
    ELSE path

-----------------------------------------------------------------------------
(* Values *)

None == {}
Some(v) == {v}
Value(opt) == CHOOSE v \in opt : TRUE

Master == <<"m","a","s","t","e","r">>
Dev == <<"d","e","v">>
Main == <<"m","a","i","n">>

\* .aiswarm/config.json
Absent == [kind |-> "absent"]
Malformed == [kind |-> "malformed"]
Json(obj) == [kind |-> "json", obj |-> obj]

\* json.dump of the document init builds
ConfigData(test_command, port, default_branch) ==
    [test_command |-> test_command,
     mcp_jetbrains_server |-> <<"http://localhost:", port>>,
     default_branch |-> default_branch]

\* dict.get(key, default)
Get(obj, key, default) == IF key \in DOMAIN obj THEN obj[key] ELSE default

WorktreesDir == ".worktrees"

\* os.path.join(".worktrees", name)
WorktreePath(name) == <<WorktreesDir, name>>

\* os.path.exists of a path under .worktrees, on a disk with these entries;
\* joining the empty name gives ".worktrees/", the base directory itself
ExistsOn(base, entries, path) ==
    IF path[2] = <<>> THEN base ELSE path[2] \in DOMAIN entries

PathExists(path) == ExistsOn(baseDir, worktrees, path)

\* only the entries that hold a status document
ListDirWithContext == {n \in DOMAIN worktrees : worktrees[n].context # {}}

\* os.listdir(".worktrees")
ListDir == DOMAIN worktrees

NoEntries == [n \in {} |-> [context |-> {}, index |-> "clean"]]

RemoveEntry(name) == [n \in DOMAIN worktrees \ {name} |-> worktrees[n]]

\* what is on disk and in the repository
Snapshot ==
    [configDir |-> configDir, configFile |-> configFile, baseDir |-> baseDir,
     worktrees |-> worktrees, branches |-> branches, unmerged |-> unmerged,
     merges |-> merges]

NoSnapshot ==
    [configDir |-> FALSE, configFile |-> Absent, baseDir |-> FALSE,
     worktrees |-> NoEntries, branches |-> {}, unmerged |-> {}, merges |-> {}]

NoOptions == [test_command |-> "", port |-> "", default_branch |-> <<>>]
NoHint == [test_file |-> None, test_action |-> "create"]
NoPrev == [cmd |-> "none", arg |-> <<>>, outcome |-> "none"]

\* a terminal with no invocation running
IdleFrame ==
    [pc |-> "idle", cmd |-> "none", arg |-> <<>>, options |-> NoOptions,
     prompt_text |-> <<>>, branch_name |-> <<>>, from_branch |-> None,
     source_branch |-> <<>>, hint |-> NoHint, target_branch |-> <<>>, calls |-> <<>>, results |-> <<>>,
     outcome |-> "none", listing |-> {}, before |-> NoSnapshot, prev |-> NoPrev]

-----------------------------------------------------------------------------
(* The inputs drawn *)

\* task descriptions: two that sanitize to the same name, one that sanitizes
\* to the empty name, and the path of a prompt file
FixLoud == <<"F","i","x","!">>
FixPlain == <<"f","i","x">>
OnlyMarks == <<"!","?">>
PromptFile == <<"t","/","a"," ","B">>

Prompts == {FixLoud, FixPlain, OnlyMarks, PromptFile}

\* os.path.isfile(prompt_or_path)
IsFile(path) == path = PromptFile

\* f.read() of the prompt file
FileContents(path) == <<"g","o">>

FromBranchOptions == {None, Some(Main)}

Hints ==
    {[test_file |-> None, test_action |-> "create"],
     [test_file |-> Some("t.py"), test_action |-> "create"],
     [test_file |-> Some("t.py"), test_action |-> "modify"]}

\* the names complete is called with: the (non-empty) names tasks get, and one
\* no task has
Ghost == <<"g","h","o","s","t">>
TaskNames ==
    {get_sanitized_branch_name(d) : d \in {FixLoud, Basename(PromptFile)}} \cup {Ghost}

\* what the user types at init's prompts: nothing (the defaults), or a value
NothingTyped == [test_command |-> None, port |-> None, default_branch |-> None]
AllTyped ==
    [test_command |-> Some("tox"), port |-> Some("9000"), default_branch |-> Some(Main)]

\* init's options and answers, in full
InitInputs ==
    [test_command : {None, Some("pytest")}, port : {None, Some("8080")},
     default_branch : {None, Some(Dev)}, typed : {NothingTyped, AllTyped}]

\* the ones that decide the default branch of later tasks
InitBranchInputs ==
    [test_command : {Some("pytest")}, port : {Some("8080")},
     default_branch : {None, Some(Dev)}, typed : {NothingTyped}]

\* the configuration a project may hold before the tool first runs
HandEdited == Json([default_branch |-> <<" ","d","e","v","\"">>])
NoBranchKey == Json([test_command |-> "make"])
InitialConfigs == {Absent, Malformed, HandEdited, NoBranchKey}

InitialBranches == {Master, Dev}

-----------------------------------------------------------------------------
(* git, as the commands of main.py use it *)

\* the result of a subprocess.run(["git", ...], check=True): the binary is
\* missing (FileNotFoundError), or it runs and exits 0 or non-zero; it can
\* exit 0 only when git's own preconditions for the command hold
GitResults(canSucceed) ==
    IF ~gitInstalled THEN {"missing"}
    ELSE IF canSucceed THEN {"ok", "fail"} ELSE {"fail"}

\* the except clauses: CalledProcessError and FileNotFoundError
FailureOutcome(result) ==
    IF result = "missing" THEN "ToolNotFound" ELSE "VcsOperationFailed"

\* a worktree git knows: its directory exists and its branch is checked out there
IsWorktree(name) == name \in DOMAIN worktrees /\ name \in branches

\* git worktree add -b <name> <path> <source>
CanWorktreeAdd(name, source) ==
    /\ name # <<>>
    /\ name \notin branches
    /\ name \notin DOMAIN worktrees
    /\ source \in branches

\* git worktree remove <path>: refuses a worktree with untracked or modified files
CanWorktreeRemove(name) ==
    IsWorktree(name) /\ worktrees[name].index = "clean"

\* git branch -d <name>: refuses a branch checked out in a worktree, or not merged
CanBranchDelete(name) ==
    /\ name \in branches
    /\ name \notin DOMAIN worktrees
    /\ name \notin unmerged
    /\ name # head

-----------------------------------------------------------------------------
(* The commands *)

repo == <<branches, head, unmerged, merges, gitInstalled>>
config == <<configDir, configFile>>
tree == <<baseDir, worktrees>>

\* a command begins: its locals are fresh, what the terminal ran before is kept
Begin(p, cmd, arg) ==
    [IdleFrame EXCEPT !.cmd = cmd, !.arg = arg, !.before = Snapshot,
                      !.prev = frame[p].prev]

\* a git subprocess ran: the call and its result are recorded
Called(fr, command, result) ==
    [fr EXCEPT !.calls = Append(@, command), !.results = Append(@, result)]

\* the command returns (or an exception leaves it) with this outcome
Finish(fr, outcome) == [fr EXCEPT !.pc = "done", !.outcome = outcome]

Goto(fr, pc) == [fr EXCEPT !.pc = pc]

\* the process exits; the terminal is free for the next command (with history,
\* what it ran is remembered: the command, its argument and its outcome)
Return(p, history) ==
    /\ frame[p].pc = "done"
    /\ frame' = [frame EXCEPT ![p] =
                    IF history
                    THEN [IdleFrame EXCEPT !.prev = [cmd |-> frame[p].cmd,
                                                     arg |-> frame[p].arg,
                                                     outcome |-> frame[p].outcome]]
                    ELSE IdleFrame]
    /\ UNCHANGED <<config, tree, repo>>

\* click.prompt(text, default=default): what the user types, else the default
ClickPrompt(typed, default) == IF typed = None THEN default ELSE Value(typed)

\* init that writes the document whether or not config.json exists
InitProjectOverwrites(p, inputs) ==
    /\ frame[p].pc = "idle"
    /\ \E in \in inputs :
        LET test_command == IF in.test_command = None
                            THEN ClickPrompt(in.typed.test_command, "")
                            ELSE Value(in.test_command)
            port == IF in.port = None
                    THEN ClickPrompt(in.typed.port, "63342")
                    ELSE Value(in.port)
            default_branch == IF in.default_branch = None
                              THEN ClickPrompt(in.typed.default_branch, Master)
                              ELSE Value(in.default_branch)
            fr == [Begin(p, "init", <<>>) EXCEPT
                      !.options = [test_command |-> test_command, port |-> port,
                                   default_branch |-> default_branch]]
        IN  /\ configDir' = TRUE
            /\ configFile' = Json(ConfigData(test_command, port, default_branch))
            /\ frame' = [frame EXCEPT ![p] = Finish(fr, "Initialized")]
    /\ UNCHANGED <<tree, repo>>

\* init(test_command, port, default_branch): an option not given is prompted
\* for; the document is written only when config.json does not exist yet
InitProject(p, inputs) ==
    /\ frame[p].pc = "idle"
    /\ \E in \in inputs :
        LET test_command == IF in.test_command = None
                            THEN ClickPrompt(in.typed.test_command, "")
                            ELSE Value(in.test_command)
            port == IF in.port = None
                    THEN ClickPrompt(in.typed.port, "63342")
                    ELSE Value(in.port)
            default_branch == IF in.default_branch = None
                              THEN ClickPrompt(in.typed.default_branch, Master)
                              ELSE Value(in.default_branch)
            fr == [Begin(p, "init", <<>>) EXCEPT
                      !.options = [test_command |-> test_command, port |-> port,
                                   default_branch |-> default_branch]]
        IN  /\ configDir' = TRUE
            /\ IF configFile = Absent
               THEN /\ configFile' = Json(ConfigData(test_command, port, default_branch))
                    /\ frame' = [frame EXCEPT ![p] = Finish(fr, "Initialized")]
               ELSE /\ configFile' = configFile
                    /\ frame' = [frame EXCEPT ![p] = Finish(fr, "ConfigExists")]
    /\ UNCHANGED <<tree, repo>>

\* the source branch of a task: --from-branch, else the configured default
\* branch; the result is <<raised, branch>>: only FileNotFoundError is caught
SourceBranch(from_branch) ==
    IF from_branch # None THEN <<FALSE, Value(from_branch)>>
    ELSE IF configFile = Absent THEN <<FALSE, Master>>
    ELSE IF configFile = Malformed THEN <<TRUE, <<>>>>
    ELSE <<FALSE,
           RemoveQuotes(Strip(Get(configFile.obj, "default_branch", Master)))>>

\* task, up to the worktree path: the prompt, the branch name, the source branch
TaskBegin(p, prompts, hints) ==
    /\ frame[p].pc = "idle"
    /\ \E prompt_or_path \in prompts, from_branch \in FromBranchOptions,
          hint \in hints :
        LET prompt_text == IF IsFile(prompt_or_path)
                           THEN FileContents(prompt_or_path)
                           ELSE prompt_or_path
            branch_name == IF IsFile(prompt_or_path)
                           THEN get_sanitized_branch_name(Basename(prompt_or_path))
                           ELSE get_sanitized_branch_name(prompt_text)
            source == SourceBranch(from_branch)
            fr == [Begin(p, "task", prompt_or_path) EXCEPT
                      !.prompt_text = prompt_text, !.branch_name = branch_name,
                      !.hint = hint, !.from_branch = from_branch,
                      !.source_branch = source[2]]
        IN  frame' = [frame EXCEPT ![p] =
                         IF source[1] THEN Finish(fr, "Raised")
                         ELSE Goto(fr, "task_exists")]
    /\ UNCHANGED <<config, tree, repo>>

\* task without the check of the worktree path
TaskExistsUnchecked(p) ==
    /\ frame[p].pc = "task_exists"
    /\ frame' = [frame EXCEPT ![p] = Goto(@, "task_worktree_add")]
    /\ UNCHANGED <<config, tree, repo>>

\* if os.path.exists(worktree_path): "Worktree for this task already exists."
TaskExists(p) ==
    /\ frame[p].pc = "task_exists"
    /\ frame' = [frame EXCEPT ![p] =
                    IF PathExists(WorktreePath(frame[p].branch_name))
                    THEN Finish(@, "AlreadyExists")
                    ELSE Goto(@, "task_worktree_add")]
    /\ UNCHANGED <<config, tree, repo>>

\* git worktree add run with check=False: its exit status is not looked at
TaskWorktreeAddUnchecked(p) ==
    /\ frame[p].pc = "task_worktree_add"
    /\ LET name == frame[p].branch_name
       IN \E result \in GitResults(CanWorktreeAdd(name, frame[p].source_branch)) :
            LET fr == Called(frame[p], "worktree add", result)
            IN  /\ IF result = "ok"
                   THEN /\ branches' = branches \cup {name}
                        /\ baseDir' = TRUE
                        /\ worktrees' = (name :> [context |-> {}, index |-> "clean"])
                                           @@ worktrees
                   ELSE UNCHANGED <<branches, baseDir, worktrees>>
                /\ frame' = [frame EXCEPT ![p] = Goto(fr, "task_context")]
    /\ UNCHANGED <<config, head, unmerged, merges, gitInstalled>>

\* git worktree add -b branch_name worktree_path source_branch
TaskWorktreeAdd(p) ==
    /\ frame[p].pc = "task_worktree_add"
    /\ LET name == frame[p].branch_name
       IN \E result \in GitResults(CanWorktreeAdd(name, frame[p].source_branch)) :
            LET fr == Called(frame[p], "worktree add", result)
            IN  IF result = "ok"
                THEN /\ branches' = branches \cup {name}
                     /\ baseDir' = TRUE
                     /\ worktrees' = (name :> [context |-> {}, index |-> "clean"])
                                        @@ worktrees
                     /\ frame' = [frame EXCEPT ![p] = Goto(fr, "task_context")]
                ELSE /\ UNCHANGED <<branches, baseDir, worktrees>>
                     /\ frame' = [frame EXCEPT ![p] =
                                     Finish(fr, FailureOutcome(result))]
    /\ UNCHANGED <<config, head, unmerged, merges, gitInstalled>>

\* the "next action" line of the status document
NextAction(hint) ==
    IF hint.test_file = None THEN <<"implement">>
    ELSE IF hint.test_action = "create" THEN <<"create", Value(hint.test_file)>>
    ELSE <<"modify", Value(hint.test_file)>>

\* context.md: the task, the worktree and the next action
ContextContent(fr) ==
    [task |-> fr.prompt_text, worktree |-> WorktreePath(fr.branch_name),
     next_action |-> NextAction(fr.hint)]

\* os.makedirs(context_dir, exist_ok=True), then context.md is written; the
\* write can raise OSError, which no except clause of task catches
TaskWriteContext(p) ==
    /\ frame[p].pc = "task_context"
    /\ LET name == frame[p].branch_name
           old == IF name \in DOMAIN worktrees THEN worktrees[name]
                  ELSE [context |-> {}, index |-> "clean"]
       IN \E written \in BOOLEAN :
            /\ baseDir' = TRUE
            /\ worktrees' =
                  (name :> IF written
                           THEN [context |-> {ContextContent(frame[p])},
                                 index |-> IF old.index = "staged" THEN "staged"
                                           ELSE "untracked"]
                           ELSE old) @@ worktrees
            /\ frame' = [frame EXCEPT ![p] =
                            Finish(@, IF written THEN "Started" ELSE "Raised")]
    /\ UNCHANGED <<config, repo>>

\* complete without the check of the worktree path
CompleteBeginUnchecked(p, names) ==
    /\ frame[p].pc = "idle"
    /\ \E task_name \in names :
        LET fr == [Begin(p, "complete", task_name) EXCEPT !.branch_name = task_name]
        IN  frame' = [frame EXCEPT ![p] = Goto(fr, "complete_add")]
    /\ UNCHANGED <<config, tree, repo>>

\* complete, up to the check of the worktree path
CompleteBegin(p, names) ==
    /\ frame[p].pc = "idle"
    /\ \E task_name \in names :
        LET fr == [Begin(p, "complete", task_name) EXCEPT !.branch_name = task_name]
        IN  frame' = [frame EXCEPT ![p] =
                         IF ~PathExists(WorktreePath(task_name))
                         THEN Finish(fr, "NotFound")
                         ELSE Goto(fr, "complete_add")]
    /\ UNCHANGED <<config, tree, repo>>

\* a step run with check=False: a failed step does not stop the next one
StepUnchecked(fr, command, result, next) ==
    IF next = "done" THEN Finish(Called(fr, command, result), FailureOutcome(result))
    ELSE Goto(Called(fr, command, result), next)

\* a step of complete's try block: on "ok" the next step, else the except clause
Step(fr, command, result, next) ==
    IF result = "ok" THEN Goto(Called(fr, command, result), next)
    ELSE Finish(Called(fr, command, result), FailureOutcome(result))

\* git -C worktree_path add .
CompleteAdd(p) ==
    /\ frame[p].pc = "complete_add"
    /\ LET name == frame[p].branch_name
       IN \E result \in GitResults(name \in DOMAIN worktrees) :
            /\ worktrees' = IF result = "ok" /\ worktrees[name].index = "untracked"
                            THEN [worktrees EXCEPT ![name].index = "staged"]
                            ELSE worktrees
            /\ frame' = [frame EXCEPT ![p] = Step(@, "add", result, "complete_commit")]
    /\ UNCHANGED <<config, baseDir, repo>>

\* complete without the commit
CompleteCommitSkipped(p) ==
    /\ frame[p].pc = "complete_commit"
    /\ frame' = [frame EXCEPT ![p] = Step(@, "commit", "ok", "complete_rev_parse")]
    /\ UNCHANGED <<config, tree, repo>>

\* git -C worktree_path commit --allow-empty -m "feat: Complete task <name>"
CompleteCommit(p) ==
    /\ frame[p].pc = "complete_commit"
    /\ LET name == frame[p].branch_name
       IN \E result \in GitResults(IsWorktree(name)) :
            /\ worktrees' = IF result = "ok" /\ worktrees[name].index = "staged"
                            THEN [worktrees EXCEPT ![name].index = "clean"]
                            ELSE worktrees
            /\ unmerged' = IF result = "ok" THEN unmerged \cup {name} ELSE unmerged
            /\ frame' = [frame EXCEPT ![p] =
                            Step(@, "commit", result, "complete_rev_parse")]
    /\ UNCHANGED <<config, baseDir, branches, head, merges, gitInstalled>>

\* git rev-parse --abbrev-ref HEAD, in the outer repository
CompleteRevParse(p) ==
    /\ frame[p].pc = "complete_rev_parse"
    /\ \E result \in GitResults(TRUE) :
         frame' = [frame EXCEPT ![p] =
                      Step([@ EXCEPT !.target_branch =
                                        IF result = "ok" THEN head ELSE @],
                           "rev-parse", result, "complete_merge")]
    /\ UNCHANGED <<config, tree, repo>>

\* git merge --no-ff branch_name: a merge commit on the checked-out branch,
\* unless that branch already contains the task branch
CompleteMerge(p) ==
    /\ frame[p].pc = "complete_merge"
    /\ LET name == frame[p].branch_name
       IN \E result \in GitResults(name \in branches) :
            /\ merges' = IF result = "ok" /\ name \in unmerged
                         THEN merges \cup {<<name, head>>} ELSE merges
            /\ unmerged' = IF result = "ok" THEN unmerged \ {name} ELSE unmerged
            /\ frame' = [frame EXCEPT ![p] =
                            Step(@, "merge", result, "complete_worktree_remove")]
    /\ UNCHANGED <<config, tree, branches, head, gitInstalled>>

\* git worktree remove worktree_path
CompleteWorktreeRemove(p) ==
    /\ frame[p].pc = "complete_worktree_remove"
    /\ LET name == frame[p].branch_name
       IN \E result \in GitResults(CanWorktreeRemove(name)) :
            /\ worktrees' = IF result = "ok" THEN RemoveEntry(name) ELSE worktrees
            /\ frame' = [frame EXCEPT ![p] =
                            Step(@, "worktree remove", result, "complete_branch_delete")]
    /\ UNCHANGED <<config, baseDir, repo>>

\* complete that reports success without deleting the branch
CompleteBranchDeleteSkipped(p) ==
    /\ frame[p].pc = "complete_branch_delete"
    /\ frame' = [frame EXCEPT ![p] = Finish(@, "Completed")]
    /\ UNCHANGED <<config, tree, repo>>

\* git branch -d branch_name, then "Task ... completed and merged successfully."
CompleteBranchDelete(p) ==
    /\ frame[p].pc = "complete_branch_delete"
    /\ LET name == frame[p].branch_name
       IN \E result \in GitResults(CanBranchDelete(name)) :
            /\ branches' = IF result = "ok" THEN branches \ {name} ELSE branches
            /\ frame' = [frame EXCEPT ![p] =
                            IF result = "ok"
                            THEN Finish(Called(@, "branch -d", result), "Completed")
                            ELSE Step(@, "branch -d", result, "done")]
    /\ UNCHANGED <<config, tree, head, unmerged, merges, gitInstalled>>

\* status: the entries of .worktrees, or "No active tasks."
Status(p) ==
    /\ frame[p].pc = "idle"
    /\ frame' = [frame EXCEPT ![p] =
                    IF ~baseDir \/ ListDir = {}
                    THEN Finish(Begin(p, "status", <<>>), "NoActiveTasks")
                    ELSE Finish([Begin(p, "status", <<>>) EXCEPT !.listing = ListDir],
                                "Listed")]
    /\ UNCHANGED <<config, tree, repo>>

-----------------------------------------------------------------------------
(* One terminal: the commands run one after another *)

Terminal == {1}

\* a project no task was started in yet
Disk(configs, dirs) ==
    /\ configFile \in configs
    /\ configDir \in {configFile # Absent} \cup dirs
    /\ baseDir = FALSE
    /\ worktrees = NoEntries
    /\ branches = InitialBranches
    /\ head \in InitialBranches
    /\ unmerged = {}
    /\ merges = {}
    /\ gitInstalled \in BOOLEAN

Init ==
    /\ Disk(InitialConfigs, {})
    /\ frame = [p \in Terminal |-> IdleFrame]

Next ==
    \E p \in Terminal :
        \/ InitProject(p, InitBranchInputs)
        \/ TaskBegin(p, Prompts, Hints)
        \/ TaskExists(p)
        \/ TaskWorktreeAdd(p)
        \/ TaskWriteContext(p)
        \/ CompleteBegin(p, TaskNames)
        \/ CompleteAdd(p)
        \/ CompleteCommit(p)
        \/ CompleteRevParse(p)
        \/ CompleteMerge(p)
        \/ CompleteWorktreeRemove(p)
        \/ CompleteBranchDelete(p)
        \/ Status(p)
        \/ Return(p, FALSE)

Spec == Init /\ [][Next]_vars

-----------------------------------------------------------------------------
(* One terminal that remembers the command it ran last: a task started twice *)

OneHint == {[test_file |-> Some("t.py"), test_action |-> "modify"]}

InitTwice ==
    /\ Disk({Absent, Malformed}, {})
    /\ frame = [p \in Terminal |-> IdleFrame]

NextTwice ==
    \E p \in Terminal :
        \/ TaskBegin(p, Prompts, OneHint)
        \/ TaskExists(p)
        \/ TaskWorktreeAdd(p)
        \/ TaskWriteContext(p)
        \/ CompleteBegin(p, TaskNames)
        \/ CompleteAdd(p)
        \/ CompleteCommit(p)
        \/ CompleteRevParse(p)
        \/ CompleteMerge(p)
        \/ CompleteWorktreeRemove(p)
        \/ CompleteBranchDelete(p)
        \/ Return(p, TRUE)

SpecTwice == InitTwice /\ [][NextTwice]_vars

-----------------------------------------------------------------------------
(* Two terminals, each starting one task: no lock is taken between the check *)
(* of the worktree path and git worktree add                                 *)

Terminals == {1, 2}

InitRace ==
    /\ Disk({Absent, HandEdited}, {})
    /\ frame = [p \in Terminals |-> IdleFrame]

NextRace ==
    \E p \in Terminals :
        \/ TaskBegin(p, Prompts, OneHint)
        \/ TaskExists(p)
        \/ TaskWorktreeAdd(p)
        \/ TaskWriteContext(p)

SpecRace == InitRace /\ [][NextRace]_vars

-----------------------------------------------------------------------------
(* init alone, with all its options and answers *)

InitConfig ==
    /\ Disk(InitialConfigs, {TRUE})
    /\ frame = [p \in Terminal |-> IdleFrame]

NextConfig ==
    \E p \in Terminal :
        \/ InitProject(p, InitInputs)
        \/ Return(p, FALSE)

SpecConfig == InitConfig /\ [][NextConfig]_vars

-----------------------------------------------------------------------------
(* get_sanitized_branch_name alone, on texts long enough to be cut *)

MaxSeedLen == 2
MaxReps == 26

SanAlphabet == {"a", "Q", "7", " ", "\t", "!", "-", "_"}

RECURSIVE Texts(_)
\* the texts over SanAlphabet of length n or less
Texts(n) ==
    IF n = 0 THEN {<<>>}
    ELSE LET shorter == Texts(n - 1)
         IN  shorter \cup {Append(t, c) : t \in shorter, c \in SanAlphabet}

RECURSIVE Repeat(_, _)
Repeat(t, k) == IF k = 0 THEN <<>> ELSE t \o Repeat(t, k - 1)

SanInputs == {Repeat(t, k) : t \in Texts(MaxSeedLen), k \in {1, MaxReps}}

InitSanitize ==
    /\ Disk({Absent}, {})
    /\ \E text \in SanInputs :
         frame = [p \in Terminal |-> [IdleFrame EXCEPT !.prompt_text = text]]

Sanitize(p) ==
    /\ frame[p].pc = "idle"
    /\ frame' = [frame EXCEPT ![p] =
                    [@ EXCEPT !.pc = "done",
                              !.branch_name =
                                  get_sanitized_branch_name(frame[p].prompt_text)]]
    /\ UNCHANGED <<config, tree, repo>>

NextSanitize == \E p \in Terminal : Sanitize(p)

SpecSanitize == InitSanitize /\ [][NextSanitize]_vars

-----------------------------------------------------------------------------
(* The claims *)

Frames == {frame[p] : p \in DOMAIN frame}

\* the worktree path of a frame's task existed when its command began
ExistedBefore(f) ==
    ExistsOn(f.before.baseDir, f.before.worktrees, WorktreePath(f.branch_name))

\* a task command that follows a task command with the same description
SecondStart(f) ==
    /\ f.cmd = "task"
    /\ f.prev.cmd = "task"
    /\ f.prev.arg = f.arg

\* C1, as claimed, where git is installed and the configuration loads: the
\* second of two task calls with the same description reports that the
\* worktree already exists, calls git not once and changes nothing on disk or
\* in the repository, whatever the first call did.
C1_SecondStartAlwaysNoOp ==
    \A f \in Frames :
        SecondStart(f) /\ gitInstalled /\ f.before.configFile # Malformed =>
            /\ f.calls = <<>>
            /\ Snapshot = f.before
            /\ f.pc = "done" => f.outcome = "AlreadyExists"

\* C1, amended: when the worktree path exists after the first call, the second
\* call calls git not once and changes nothing; it reports that the worktree
\* already exists, unless loading the configuration raised before the check
\* (a malformed config.json and no --from-branch). When the path does not exist
\* (the first call's git worktree add failed), the second call calls git again.
C1_SecondStartNoOpWhenPathExists ==
    \A f \in Frames :
        SecondStart(f) =>
            /\ ExistedBefore(f) =>
                /\ f.calls = <<>>
                /\ Snapshot = f.before
                /\ f.pc \in {"task_exists", "done"}
                /\ f.pc = "done" =>
                    \/ f.outcome = "AlreadyExists"
                    \/ /\ f.outcome = "Raised"
                       /\ f.from_branch = None
                       /\ f.before.configFile = Malformed
            /\ ~ExistedBefore(f) /\ f.pc = "done" /\ f.outcome # "Raised" =>
                /\ f.calls = <<"worktree add">>
                /\ f.outcome # "AlreadyExists"

C1_Witness ==
    \E f \in Frames :
        /\ SecondStart(f)
        /\ f.prev.outcome = "Started"
        /\ f.pc = "done"
        /\ f.outcome = "AlreadyExists"

\* C2: a task started without --from-branch, the configuration file absent or
\* malformed, takes "master" as its source branch, and loading the
\* configuration raises nothing.
C2_ConfigLoadNeverRaises ==
    \A f \in Frames :
        /\ f.cmd = "task"
        /\ f.from_branch = None
        /\ f.before.configFile \in {Absent, Malformed}
        => /\ f.source_branch = Master
           /\ ~(f.pc = "done" /\ f.outcome = "Raised" /\ f.calls = <<>>)

\* C3: complete on a name whose worktree path does not exist ends NotFound,
\* having called git not once and changed nothing.
C3_CompleteNotFoundCallsNoGit ==
    \A f \in Frames :
        f.cmd = "complete" /\ ~ExistedBefore(f) =>
            /\ f.pc = "done"
            /\ f.outcome = "NotFound"
            /\ f.calls = <<>>
            /\ Snapshot = f.before

C3_Witness ==
    \E f \in Frames :
        /\ f.cmd = "complete"
        /\ f.outcome = "NotFound"
        /\ f.branch_name \in branches
        /\ worktrees # NoEntries

CompleteSteps == <<"add", "commit", "rev-parse", "merge", "worktree remove", "branch -d">>

\* C4: complete calls git in the order add, commit, rev-parse, merge, worktree
\* remove, branch -d; after a step that fails no further step is called and
\* the command ends VcsOperationFailed; the commit and the merge of the steps
\* that succeeded stay.
C4_CompleteStepsInOrderAbortOnFailure ==
    \A f \in Frames :
        f.cmd = "complete" =>
            LET n == Len(f.calls)
                name == f.branch_name
                ok(i) == i <= n /\ f.results[i] = "ok"
            IN  /\ n <= Len(CompleteSteps)
                /\ f.calls = SubSeq(CompleteSteps, 1, n)
                /\ Len(f.results) = n
                /\ \A i \in 1..n : i < n => f.results[i] = "ok"
                /\ n > 0 /\ f.results[n] # "ok" => f.pc = "done"
                /\ n > 0 /\ f.results[n] = "fail" => f.outcome = "VcsOperationFailed"
                /\ ok(2) => name \in unmerged \/ ok(4)
                /\ ok(4) => <<name, head>> \in merges /\ name \notin unmerged
                /\ ok(5) => name \notin DOMAIN worktrees

C4_Witness ==
    \E f \in Frames :
        /\ f.cmd = "complete"
        /\ f.pc = "done"
        /\ f.results = <<"ok", "ok", "ok", "fail">>
        /\ f.outcome = "VcsOperationFailed"
        /\ f.branch_name \in unmerged

\* C5: a complete whose every git step succeeds leaves neither the worktree
\* path nor the branch, and a merge commit of the branch on the branch checked
\* out in the outer repository (the merge always finds a commit to merge); the
\* path existed when it began.
C5_CompleteDestroysTask ==
    \A f \in Frames :
        f.cmd = "complete" =>
            /\ f.pc = "complete_merge" => f.branch_name \in unmerged
            /\ f.pc = "done" /\ f.outcome = "Completed" =>
                /\ f.results = [i \in 1..Len(CompleteSteps) |-> "ok"]
                /\ f.branch_name \notin DOMAIN worktrees
                /\ f.branch_name \notin branches
                /\ f.target_branch = head
                /\ <<f.branch_name, f.target_branch>> \in merges
                /\ ExistedBefore(f)
                /\ f.branch_name \in f.before.branches

C5_Witness ==
    \E f \in Frames :
        /\ f.cmd = "complete"
        /\ f.pc = "done"
        /\ f.outcome = "Completed"
        /\ worktrees # NoEntries

\* C6: a sanitized branch name holds only a-z, 0-9 and the hyphen (no upper
\* case letter, no whitespace) and at most 50 characters; the empty text gives
\* the empty name.
C6_SanitizedNameIsSafe ==
    \A f \in Frames :
        f.cmd = "none" /\ f.pc = "done" =>
            LET out == f.branch_name
            IN  /\ \A i \in DOMAIN out :
                    /\ out[i] \in Range(LowerCase) \cup Digits \cup {"-"}
                    /\ ~IsUpper(out[i])
                    /\ out[i] \notin Whitespace
                /\ Len(out) <= MaxBranchLen
                /\ f.prompt_text = <<>> => out = <<>>

C6_Witness ==
    \E f \in Frames :
        /\ f.cmd = "none"
        /\ f.pc = "done"
        /\ Len(f.prompt_text) > MaxBranchLen
        /\ Len(f.branch_name) = MaxBranchLen
        /\ \E i \in DOMAIN f.prompt_text : IsUpper(f.prompt_text[i])
        /\ \E i \in DOMAIN f.prompt_text : f.prompt_text[i] \in Whitespace

\* C7: status lists exactly the entries of .worktrees and changes nothing;
\* with the directory absent or empty it lists nothing and ends with the
\* informational "no active tasks".
C7_StatusListsActiveTasks ==
    \A f \in Frames :
        f.cmd = "status" =>
            /\ f.pc = "done"
            /\ f.listing = DOMAIN worktrees
            /\ Snapshot = f.before
            /\ f.calls = <<>>
            /\ f.outcome = IF ~baseDir \/ DOMAIN worktrees = {}
                           THEN "NoActiveTasks" ELSE "Listed"

C7_Witness ==
    \E f \in Frames :
        /\ f.cmd = "status"
        /\ f.outcome = "Listed"
        /\ Cardinality(f.listing) = 2
        /\ \E n \in f.listing : worktrees[n].context = {}

\* C8, as claimed: after init the configuration file holds exactly the values
\* init was run with, whatever it held before.
C8_InitAlwaysOverwrites ==
    \A f \in Frames :
        f.cmd = "init" /\ f.pc = "done" =>
            /\ configDir
            /\ configFile = Json(ConfigData(f.options.test_command, f.options.port,
                                            f.options.default_branch))

\* C8, amended: init creates .aiswarm if absent; when config.json does not
\* exist it writes the document with exactly the values given or prompted
\* for, and when config.json exists it leaves the file as it is.
C8_InitWritesOnlyWhenAbsent ==
    \A f \in Frames :
        f.cmd = "init" /\ f.pc = "done" =>
            /\ configDir
            /\ f.before.configFile = Absent =>
                /\ f.outcome = "Initialized"
                /\ configFile = Json([test_command |-> f.options.test_command,
                                      mcp_jetbrains_server |->
                                          <<"http://localhost:", f.options.port>>,
                                      default_branch |-> f.options.default_branch])
            /\ f.before.configFile # Absent =>
                /\ f.outcome = "ConfigExists"
                /\ configFile = f.before.configFile

C8_Witness ==
    \E f \in Frames :
        /\ f.cmd = "init"
        /\ f.pc = "done"
        /\ ~f.before.configDir
        /\ f.outcome = "Initialized"
        /\ configFile.obj.mcp_jetbrains_server = <<"http://localhost:", "63342">>
        /\ configFile.obj.default_branch = Dev

\* two task commands on the same branch name, both past the check of the path
Raced(f, g) ==
    /\ f.cmd = "task" /\ g.cmd = "task"
    /\ f.branch_name = g.branch_name
    /\ f.pc = "task_worktree_add" \/ f.calls # <<>>
    /\ g.pc = "task_worktree_add" \/ g.calls # <<>>

Created(f) == f.results = <<"ok">>

\* C9: of two task commands that both passed the check of the same worktree
\* path, at most one creates the branch and the directory; the other's git
\* worktree add fails and it ends VcsOperationFailed, never writing the
\* status document and never reporting the task started.
C9_RaceAtMostOneCreates ==
    \A p, q \in DOMAIN frame :
        p # q /\ Raced(frame[p], frame[q]) =>
            /\ ~(Created(frame[p]) /\ Created(frame[q]))
            /\ Created(frame[q]) =>
                /\ frame[p].pc \in {"task_worktree_add", "done"}
                /\ frame[p].outcome \in {"none", "VcsOperationFailed"}
                /\ frame[p].calls # <<>> => frame[p].results = <<"fail">>
                /\ worktrees[frame[q].branch_name].context
                       \subseteq {ContextContent(frame[q])}

C9_Witness ==
    \E p, q \in DOMAIN frame :
        /\ p # q
        /\ Raced(frame[p], frame[q])
        /\ frame[q].outcome = "Started"
        /\ frame[p].outcome = "VcsOperationFailed"
        /\ frame[p].prompt_text # frame[q].prompt_text

\* task branches without a working directory
Orphans(bs, entries) == {n \in bs \ InitialBranches : n \notin DOMAIN entries}

\* no two names share a worktree path
PathsDistinct ==
    \A n, m \in (branches \ InitialBranches) \cup DOMAIN worktrees :
        WorktreePath(n) = WorktreePath(m) => n = m

=============================================================================
